---- MODULE Spec2Model ----
(***************************************************************************)
(* A model of the tensor core (src/unnamed/part_000, the tensor_core       *)
(* specialisation of subtensor.hpp) and of the span selector               *)
(* (src/include/boost/numeric/ublas/tensor/span.hpp).                      *)
(*                                                                         *)
(* Three specifications share the variables:                               *)
(*   Spec      one tensor and every element-access operation,              *)
(*   PairSpec  two tensors under writes, broadcast, copy-assignment, swap, *)
(*   SpanSpec  one span object under construction, indexing, composition.  *)
(***************************************************************************)
EXTENDS Integers, Sequences, FiniteSets, TLC

VARIABLES
    layout,     \* layout_type of the tensor type: a compile-time choice
    tensors,    \* tensor id -> [extents, strides, container]; container is
                \* the address of the backing storage the tensor owns
    heap,       \* address -> the elements stored there (a sequence)
    last,       \* the most recent tensor call: its arguments and its outcome
    sp,         \* the span object: [first, step, last]
    sout        \* the most recent span call: its arguments and its outcome

vars == <<layout, tensors, heap, last, sp, sout>>

tvars == <<layout, tensors, heap, last>>
svars == <<sp, sout>>

----------------------------------------------------------------------------
(* Bounds of the model.                                                    *)

\* Spec: shapes have at most MaxRank dimensions and at most MaxSize elements.
MaxRank == 2
MaxSize == 4
\* PairSpec: the same, for each of the two tensors.
PairMaxRank == 2
PairMaxSize == 2
\* The extent of a dimension is at most MaxExtent (0: an empty dimension).
MaxExtent == 2
ExtentValues == 0..MaxExtent
\* Indices passed to the access operations: every position of a dimension
\* and one beyond the largest extent.
IndexValues == 0..MaxExtent
\* Element values; 0 is the value-initialised element.
ElementValues == {0, 1}
\* Placeholder tags of the Einstein notation (index::index_type<I>).
TagValues == {1, 2}
Layouts == {"first_order", "last_order"}
\* SpanSpec: value_type (std::ptrdiff_t) and std::size_t are Bits bits wide,
\* and the arguments of the span constructors are 0..MaxIn or an extreme
\* value of value_type.
Bits == 3
MaxIn == 1

----------------------------------------------------------------------------
(* Collaborators of the tensor core that are not part of the two source    *)
(* files: ublas::product, ublas::to_strides, ublas::detail::to_index.      *)

RECURSIVE product(_)
\* ublas::product(extents): the number of elements of a shape.
product(e) == IF e = <<>> THEN 1 ELSE Head(e) * product(Tail(e))

\* ublas::to_strides(extents, layout): strides[d] is the offset delta of one
\* step along dimension d; the first (first_order) or the last (last_order)
\* dimension is contiguous.
to_strides(e, l) ==
    [d \in 1..Len(e) |->
        IF l = "first_order"
        THEN product(SubSeq(e, 1, d - 1))
        ELSE product(SubSeq(e, d + 1, Len(e)))]

RECURSIVE to_index(_, _)
\* ublas::detail::to_index(strides, i1, ..., ik): sum of i_d * strides[d].
to_index(w, is) ==
    IF is = <<>> \/ w = <<>> THEN 0
    ELSE Head(is) * Head(w) + to_index(Tail(w), Tail(is))

----------------------------------------------------------------------------
(* Observers of a tensor value T = [extents, strides, container] in heap h *)

extents(T) == T.extents
strides(T) == T.strides
rank(T) == Len(T.extents)
order(T) == rank(T)
size(T, h) == Len(h[T.container])
sizeAt(T, r) == T.extents[r + 1]
empty(T, h) == Len(h[T.container]) = 0

\* What a tensor is to its user: shape, strides and stored elements.
View(T, h) == [extents |-> T.extents, strides |-> T.strides, data |-> h[T.container]]

\* A bounds test that takes the last element for the end of the container.
ContainerAtOffByOne(c, idx) == IF idx \in 0..(Len(c) - 2) THEN "ok" ELSE "out_of_range"

\* container.at(idx) of the backing container: checked access.
ContainerAt(c, idx) == IF idx \in 0..(Len(c) - 1) THEN "ok" ELSE "out_of_range"

\* A count test that rejects only too few indices.
CountMismatchTooFew(n, T) == n < order(T)

\* The index-count test of the multi-index at and of the Einstein call.
CountMismatch(n, T) == n # order(T)

----------------------------------------------------------------------------
(* Span: integer arithmetic.  value_type is the signed Bits-bit integer,   *)
(* std::size_t the unsigned one.  Unsigned arithmetic and the conversions  *)
(* between the two are modular.  Signed overflow is undefined; the builds  *)
(* either wrap the result or trap.                                         *)

Modulus == 2 ^ Bits
\* max: std::numeric_limits<std::ptrdiff_t>::max()
max == 2 ^ (Bits - 1) - 1
lowest == -(2 ^ (Bits - 1))

ValueType == lowest..max
SizeType == 0..(Modulus - 1)

ToUnsigned(n) == n % Modulus
ToSigned(n) == LET m == n % Modulus IN IF m > max THEN m - Modulus ELSE m
Fits(n) == lowest <= n /\ n <= max

----------------------------------------------------------------------------
(* Span: constructors and operators.  A constructor yields the status of   *)
(* the call and, when it returns, the span built.                          *)

NoSpan == [first |-> 0, step |-> 0, last |-> 0]

\* span(): first_{}, last_{max}, step_{1}
span0 == [first |-> 0, step |-> 1, last |-> max]

\* A constructor that rejects every zero step.
span3RejectsZeroStep(f, s, l) ==
    IF s = 0
    THEN [status |-> "runtime_error", span |-> NoSpan]
    ELSE [status |-> "ok", span |-> [first |-> f, step |-> s, last |-> l]]

\* span(f, s, l)
span3(f, s, l) ==
    IF s = 0 /\ f # l
    THEN [status |-> "runtime_error", span |-> NoSpan]
    ELSE [status |-> "ok", span |-> [first |-> f, step |-> s, last |-> l]]

\* span(l) : span(0, 1, l)
span1(l) == span3(0, 1, l)

\* span(f, l) : span(f, 1, l)
span2(f, l) == span3(f, 1, l)

\* span(span const& other)
spanCopy(other) == [first |-> other.first, step |-> other.step, last |-> other.last]

\* operator=(span const& other): the value *this holds afterwards.
spanAssign(other) == [first |-> other.first, step |-> other.step, last |-> other.last]

\* operator[](std::size_t idx): first_ + idx * step_, computed in
\* std::size_t and converted to value_type on return.
index(s, idx) == ToSigned(ToUnsigned(s.first) + idx * ToUnsigned(s.step))

\* The three arguments operator()(rhs) passes to span(f, s, l), each signed
\* operation wrapped.
composeArgs(lhs, rhs) ==
    [f |-> ToSigned(ToSigned(rhs.first * lhs.step) + lhs.first),
     s |-> ToSigned(lhs.step * rhs.step),
     l |-> ToSigned(ToSigned(rhs.last * lhs.step) + lhs.first)]

\* Whether a signed operation of operator()(rhs) overflows value_type.
composeOverflows(lhs, rhs) ==
    \/ ~Fits(rhs.first * lhs.step)
    \/ ~Fits(ToSigned(rhs.first * lhs.step) + lhs.first)
    \/ ~Fits(lhs.step * rhs.step)
    \/ ~Fits(rhs.last * lhs.step)
    \/ ~Fits(ToSigned(rhs.last * lhs.step) + lhs.first)

\* operator()(rhs) const, in a build that wraps.
compose(lhs, rhs) ==
    LET a == composeArgs(lhs, rhs) IN span3(a.f, a.s, a.l)

\* The record of a span call: operation, constructor arguments, operands of
\* a composition, index, status, value returned by operator[].
SpanCall(op, args, lhs, rhs, idx, status, val) ==
    [op |-> op, args |-> args, lhs |-> lhs, rhs |-> rhs, idx |-> idx,
     status |-> status, val |-> val]

NoSpanCall == SpanCall("none", <<>>, NoSpan, NoSpan, 0, "ok", 0)

----------------------------------------------------------------------------
(* Storage addresses.  Addresses are only ever compared for equality, so   *)
(* states are kept up to a renaming of addresses: the live buffers are     *)
(* numbered in the order of the tensors that own them, and a buffer that   *)
(* no tensor owns any more (the destroyed temporary's) is released.        *)

MinOf(S) == CHOOSE x \in S : \A y \in S : x <= y

FirstOwner(ts, t) == MinOf({u \in DOMAIN ts : ts[u].container = ts[t].container})

NewAddr(ts, t) ==
    Cardinality({f \in {FirstOwner(ts, u) : u \in DOMAIN ts} : f <= FirstOwner(ts, t)})

Renumbered(ts, h) ==
    [tensors |-> [t \in DOMAIN ts |-> [ts[t] EXCEPT !.container = NewAddr(ts, t)]],
     heap    |-> [a \in {NewAddr(ts, t) : t \in DOMAIN ts} |->
                    h[ts[MinOf({t \in DOMAIN ts : NewAddr(ts, t) = a})].container]]]

FreshAddr(h) == MinOf({a \in 1..(Cardinality(DOMAIN h) + 1) : a \notin DOMAIN h})

----------------------------------------------------------------------------
(* The record of a call: operation, target tensor t, second operand u,     *)
(* number n of indices or tags supplied, the indices or tags themselves    *)
(* (is) once the call has evaluated them, the value v stored by a write,   *)
(* the status (ok or the exception thrown), the value val a read returned, *)
(* and the set of storage offsets the call touched.                        *)

Outcome(op, t, u, n, is, v, status, val, touched) ==
    [op |-> op, t |-> t, u |-> u, n |-> n, is |-> is, v |-> v,
     status |-> status, val |-> val, touched |-> touched]

NoCall == Outcome("none", 0, 0, 0, <<>>, 0, "ok", 0, {})

IndexTuples(n) == [1..n -> IndexValues]

----------------------------------------------------------------------------
(* Construction                                                            *)

\* tensor_core(Is... is): extents from the sizes, strides from the layout,
\* and a container of product(extents) value-initialised elements at addr.
tensor_core(is, l, addr) ==
    [extents |-> is, strides |-> to_strides(is, l), container |-> addr]

NewContainer(n) == [i \in 1..n |-> 0]

Shapes(maxRank, maxSize) ==
    {e \in UNION {[1..r -> ExtentValues] : r \in 0..maxRank} : product(e) <= maxSize}

Constructed(ids, shapes) ==
    /\ layout \in Layouts
    /\ \E sh \in [ids -> shapes] :
          /\ tensors = [t \in ids |-> tensor_core(sh[t], layout, t)]
          /\ heap = [t \in ids |-> NewContainer(product(sh[t]))]
    /\ last = NoCall

\* The span object is default-constructed and stays untouched.
SpanIdle == sp = span0 /\ sout = NoSpanCall

----------------------------------------------------------------------------
(* The caller.  A call is made when no result is pending (Idle); Resume    *)
(* is the caller taking the recorded result and going on.                  *)

Idle == last = NoCall

Resume ==
    /\ last # NoCall
    /\ last' = NoCall
    /\ UNCHANGED <<layout, tensors, heap, svars>>

----------------------------------------------------------------------------
(* Element access.  at and atLinear resolve a call on tensor value T in    *)
(* heap h to its status and the storage offset it refers to.               *)

\* A multi-index at that resolves the offset against the extents.
atWithExtents(T, h, n, is) ==
    IF CountMismatch(n, T)
    THEN [status |-> "invalid_argument", idx |-> 0]
    ELSE LET idx == to_index(T.extents, is)
         IN  [status |-> ContainerAt(h[T.container], idx), idx |-> idx]

\* at(i1, i2, is...) with n >= 2 indices
at(T, h, n, is) ==
    IF CountMismatch(n, T)
    THEN [status |-> "invalid_argument", idx |-> 0]
    ELSE LET idx == to_index(T.strides, is)
         IN  [status |-> ContainerAt(h[T.container], idx), idx |-> idx]

\* at(size_type i): checked access by storage offset, no stride resolution.
atLinear(T, h, i) == [status |-> ContainerAt(h[T.container], i), idx |-> i]

\* operator()(Is... is) returns this->at(is...): the multi-index at for two
\* or more indices, at(size_type) for one.
call(T, h, n, is) == IF n >= 2 THEN at(T, h, n, is) ELSE atLinear(T, h, is[1])

\* operator[](size_type i): the element at offset i, unchecked.
subscript(T, h, i) == h[T.container][i + 1]

\* The value a read that resolved to r returns.
Fetched(T, h, r) == IF r.status = "ok" THEN h[T.container][r.idx + 1] ELSE 0

\* A read on tensor t that resolved to r.
Reads(op, t, n, is, r) ==
    /\ last' = IF r.status = "invalid_argument"
               THEN Outcome(op, t, 0, n, <<>>, 0, r.status, 0, {})
               ELSE IF r.status # "ok"
               THEN Outcome(op, t, 0, n, is, 0, r.status, 0, {})
               ELSE Outcome(op, t, 0, n, is, 0, "ok",
                            Fetched(tensors[t], heap, r), {r.idx})
    /\ UNCHANGED <<layout, tensors, heap, svars>>

\* The assignment of v through the reference an access on tensor t that
\* resolved to r returns; when the access throws nothing is assigned.
Writes(op, t, n, is, r, v) ==
    /\ IF r.status = "invalid_argument"
       THEN /\ last' = Outcome(op, t, 0, n, <<>>, 0, r.status, 0, {})
            /\ UNCHANGED heap
       ELSE IF r.status # "ok"
       THEN /\ last' = Outcome(op, t, 0, n, is, 0, r.status, 0, {})
            /\ UNCHANGED heap
       ELSE /\ heap' = [heap EXCEPT ![tensors[t].container][r.idx + 1] = v]
            /\ last' = Outcome(op, t, 0, n, is, v, "ok", 0, {r.idx})
    /\ UNCHANGED <<layout, tensors, svars>>

\* a = A.at(i, j, ...)
AtConst(t, n, is) ==
    /\ Idle
    /\ Reads("at_read", t, n, is, at(tensors[t], heap, n, is))

\* A.at(i, j, ...) = v
AtMutable(t, n, is, v) ==
    /\ Idle
    /\ Writes("at_write", t, n, is, at(tensors[t], heap, n, is), v)

\* a = A(i, ...)
CallConst(t, n, is) ==
    /\ Idle
    /\ Reads("call_read", t, n, is, call(tensors[t], heap, n, is))

\* A(i, ...) = v
CallMutable(t, n, is, v) ==
    /\ Idle
    /\ Writes("call_write", t, n, is, call(tensors[t], heap, n, is), v)

\* a = A.at(i)
LinearAtConst(t, i) ==
    /\ Idle
    /\ Reads("linear_read", t, 1, <<i>>, atLinear(tensors[t], heap, i))

\* A.at(i) = v
LinearAtMutable(t, i, v) ==
    /\ Idle
    /\ Writes("linear_write", t, 1, <<i>>, atLinear(tensors[t], heap, i), v)

\* a = A[i].  operator[] does not check i; a call with i >= size() is
\* outside its contract and has no defined behaviour, so only calls inside
\* the contract are steps of the model.
SubscriptConst(t, i) ==
    /\ Idle
    /\ i < size(tensors[t], heap)
    /\ last' = Outcome("subscript_read", t, 0, 1, <<i>>, 0, "ok",
                       subscript(tensors[t], heap, i), {i})
    /\ UNCHANGED <<layout, tensors, heap, svars>>

\* A[i] = v
SubscriptMutable(t, i, v) ==
    /\ Idle
    /\ i < size(tensors[t], heap)
    /\ heap' = [heap EXCEPT ![tensors[t].container][i + 1] = v]
    /\ last' = Outcome("subscript_write", t, 0, 1, <<i>>, v, "ok", 0, {i})
    /\ UNCHANGED <<layout, tensors, svars>>

\* A(_i, _j, ...): the Einstein call with n placeholder tags.  On success it
\* returns the pair (reference to *this, tuple of the tags): u names the
\* tensor referred to and is holds the tags.
Einstein(t, n, tags) ==
    /\ Idle
    /\ IF CountMismatch(n, tensors[t])
       THEN last' = Outcome("einstein", t, 0, n, <<>>, 0, "invalid_argument", 0, {})
       ELSE last' = Outcome("einstein", t, t, n, tags, 0, "ok", 0, {})
    /\ UNCHANGED <<layout, tensors, heap, svars>>

----------------------------------------------------------------------------
(* Whole-tensor operations                                                 *)

\* A = v: std::fill_n over the whole container.
Fill(t, v) ==
    /\ Idle
    /\ heap' = [heap EXCEPT ![tensors[t].container] = [i \in DOMAIN @ |-> v]]
    /\ last' = Outcome("fill", t, 0, 0, <<>>, v, "ok", 0,
                       0..(size(tensors[t], heap) - 1))
    /\ UNCHANGED <<layout, tensors, svars>>

\* A swap that leaves the strides where they are.
swapWithoutStrides(ts, lhs, rhs) ==
    [ts EXCEPT ![lhs] = [extents   |-> ts[rhs].extents,
                         strides   |-> ts[lhs].strides,
                         container |-> ts[rhs].container],
               ![rhs] = [extents   |-> ts[lhs].extents,
                         strides   |-> ts[rhs].strides,
                         container |-> ts[lhs].container]]

\* A swap that leaves the containers where they are.
swapWithoutContainer(ts, lhs, rhs) ==
    [ts EXCEPT ![lhs] = [extents   |-> ts[rhs].extents,
                         strides   |-> ts[rhs].strides,
                         container |-> ts[lhs].container],
               ![rhs] = [extents   |-> ts[lhs].extents,
                         strides   |-> ts[lhs].strides,
                         container |-> ts[rhs].container]]

\* swap(lhs, rhs): three std::swap calls on the members of tensors lhs and
\* rhs of the tensor table ts; the containers exchange their storage.
swap(ts, lhs, rhs) ==
    [ts EXCEPT ![lhs] = [extents   |-> ts[rhs].extents,
                         strides   |-> ts[rhs].strides,
                         container |-> ts[rhs].container],
               ![rhs] = [extents   |-> ts[lhs].extents,
                         strides   |-> ts[lhs].strides,
                         container |-> ts[lhs].container]]

\* The by-value parameter of operator=(tensor_core other): a memberwise copy
\* of the argument, its container a new buffer at addr with equal elements.
CopyOf(T, addr) ==
    [extents |-> T.extents, strides |-> T.strides, container |-> addr]

\* An assignment that returns *this without the swap.
assignWithoutSwap(ts, t) == [x \in DOMAIN ts \ {0} |-> ts[x]]

\* operator=(tensor_core other): swap(*this, other) on the tensor table ts
\* in which the parameter other is tensor 0; other is destroyed on return.
assign(ts, t) ==
    LET swapped == swap(ts, t, 0)
    IN  [x \in DOMAIN ts \ {0} |-> swapped[x]]

\* swap(A, B)
Swap(t, u) ==
    /\ Idle
    /\ LET r == Renumbered(swap(tensors, t, u), heap)
       IN  tensors' = r.tensors /\ heap' = r.heap
    /\ last' = Outcome("swap", t, u, 0, <<>>, 0, "ok", 0, {})
    /\ UNCHANGED <<layout, svars>>

\* A = B, the copy of B having been built.
CopyAssign(t, u) ==
    /\ Idle
    /\ LET addr  == FreshAddr(heap)
           other == CopyOf(tensors[u], addr)
           h1    == [a \in DOMAIN heap \cup {addr} |->
                        IF a = addr THEN heap[tensors[u].container] ELSE heap[a]]
           ts1   == [x \in DOMAIN tensors \cup {0} |->
                        IF x = 0 THEN other ELSE tensors[x]]
           r     == Renumbered(assign(ts1, t), h1)
       IN  tensors' = r.tensors /\ heap' = r.heap
    /\ last' = Outcome("assign", t, u, 0, <<>>, 0, "ok", 0, {})
    /\ UNCHANGED <<layout, svars>>

\* A = B when building the copy of B throws (the allocation fails): the
\* exception leaves the call expression before operator= is entered.
CopyAssignFails(t, u) ==
    /\ Idle
    /\ last' = Outcome("assign", t, u, 0, <<>>, 0, "bad_alloc", 0, {})
    /\ UNCHANGED <<layout, tensors, heap, svars>>

----------------------------------------------------------------------------
(* Spec: one tensor, every element-access operation.                       *)

Init == Constructed({1}, Shapes(MaxRank, MaxSize)) /\ SpanIdle

Next ==
    \/ Resume
    \/ \E t \in DOMAIN tensors, n \in 2..(MaxRank + 1) :
          \E is \in IndexTuples(n) : AtConst(t, n, is)
    \/ \E t \in DOMAIN tensors, n \in 2..(MaxRank + 1) :
          \E is \in IndexTuples(n), v \in ElementValues : AtMutable(t, n, is, v)
    \/ \E t \in DOMAIN tensors, n \in 1..(MaxRank + 1) :
          \E is \in IndexTuples(n) : CallConst(t, n, is)
    \/ \E t \in DOMAIN tensors, n \in 1..(MaxRank + 1) :
          \E is \in IndexTuples(n), v \in ElementValues : CallMutable(t, n, is, v)
    \/ \E t \in DOMAIN tensors, i \in 0..MaxSize : LinearAtConst(t, i)
    \/ \E t \in DOMAIN tensors, i \in 0..MaxSize, v \in ElementValues :
          LinearAtMutable(t, i, v)
    \/ \E t \in DOMAIN tensors, i \in 0..MaxSize : SubscriptConst(t, i)
    \/ \E t \in DOMAIN tensors, i \in 0..MaxSize, v \in ElementValues :
          SubscriptMutable(t, i, v)
    \/ \E t \in DOMAIN tensors, n \in 1..(MaxRank + 1) :
          \E tags \in [1..n -> TagValues] : Einstein(t, n, tags)

Spec == Init /\ [][Next]_vars

----------------------------------------------------------------------------
(* PairSpec: two tensors of one tensor type under element writes, scalar   *)
(* broadcast, copy-assignment and swap.                                    *)

TensorIds == {1, 2}

PairInit == Constructed(TensorIds, Shapes(PairMaxRank, PairMaxSize)) /\ SpanIdle

PairNext ==
    \/ Resume
    \/ \E t \in DOMAIN tensors, i \in 0..PairMaxSize, v \in ElementValues :
          SubscriptMutable(t, i, v)
    \/ \E t \in DOMAIN tensors, i \in 0..PairMaxSize, v \in ElementValues :
          LinearAtMutable(t, i, v)
    \/ \E t \in DOMAIN tensors, v \in ElementValues : Fill(t, v)
    \/ \E t, u \in DOMAIN tensors : CopyAssign(t, u)
    \/ \E t, u \in DOMAIN tensors : CopyAssignFails(t, u)
    \/ \E t, u \in DOMAIN tensors : Swap(t, u)

PairSpec == PairInit /\ [][PairNext]_vars

----------------------------------------------------------------------------
(* SpanSpec: one span object s under construction, indexing, composition.  *)

InVals == (0..MaxIn) \cup {lowest, max}

\* The spans a caller can build from the arguments: operands of composition.
InputSpans ==
    {span0} \cup
    {span3(f, s, l).span : <<f, s, l>> \in
        {a \in InVals \X InVals \X InVals : span3(a[1], a[2], a[3]).status = "ok"}}

SpanIdleCaller == sout = NoSpanCall

SpanResume ==
    /\ sout # NoSpanCall
    /\ sout.status # "trap"
    /\ sout' = NoSpanCall
    /\ UNCHANGED <<sp, tvars>>

\* s = span(...): the temporary built by constructor call c is assigned to s;
\* when the constructor throws there is no temporary and s keeps its value.
Constructs(op, args, c) ==
    /\ sp' = IF c.status = "ok" THEN spanAssign(c.span) ELSE sp
    /\ sout' = SpanCall(op, args, NoSpan, NoSpan, 0, c.status, 0)

\* s = span()
SpanDefault ==
    /\ SpanIdleCaller
    /\ Constructs("span0", <<>>, [status |-> "ok", span |-> span0])
    /\ UNCHANGED tvars

\* s = span(l)
SpanOne(l) ==
    /\ SpanIdleCaller
    /\ Constructs("span1", <<l>>, span1(l))
    /\ UNCHANGED tvars

\* s = span(f, l)
SpanTwo(f, l) ==
    /\ SpanIdleCaller
    /\ Constructs("span2", <<f, l>>, span2(f, l))
    /\ UNCHANGED tvars

\* s = span(f, s, l)
SpanThree(f, s, l) ==
    /\ SpanIdleCaller
    /\ Constructs("span3", <<f, s, l>>, span3(f, s, l))
    /\ UNCHANGED tvars

\* v = s[idx]
SpanIndex(idx) ==
    /\ SpanIdleCaller
    /\ sout' = SpanCall("index", <<>>, NoSpan, NoSpan, idx, "ok", index(sp, idx))
    /\ UNCHANGED <<sp, tvars>>

\* s = lhs(rhs) in a build that wraps signed overflow.
Composes(lhs, rhs) ==
    /\ SpanIdleCaller
    /\ LET c == compose(lhs, rhs)
       IN  /\ sp' = IF c.status = "ok" THEN spanAssign(c.span) ELSE sp
           /\ sout' = SpanCall("compose", <<>>, lhs, rhs, 0, c.status, 0)
    /\ UNCHANGED tvars

\* s = lhs(rhs) in a build that traps signed overflow: the process ends.
ComposeTraps(lhs, rhs) ==
    /\ SpanIdleCaller
    /\ composeOverflows(lhs, rhs) = TRUE
    /\ sout' = SpanCall("compose", <<>>, lhs, rhs, 0, "trap", 0)
    /\ UNCHANGED <<sp, tvars>>

SpanInit ==
    /\ layout = "first_order"
    /\ tensors = [t \in {1} |-> tensor_core(<<>>, layout, t)]
    /\ heap = [t \in {1} |-> NewContainer(product(<<>>))]
    /\ last = NoCall
    /\ sp = span0
    /\ sout = NoSpanCall

SpanNext ==
    \/ SpanResume
    \/ SpanDefault
    \/ \E l \in InVals : SpanOne(l)
    \/ \E f, l \in InVals : SpanTwo(f, l)
    \/ \E f, s, l \in InVals : SpanThree(f, s, l)
    \/ \E idx \in SizeType : SpanIndex(idx)
    \/ \E b \in InputSpans : Composes(sp, b)
    \/ \E b \in InputSpans : Composes(b, sp)
    \/ Composes(sp, spanCopy(sp))
    \/ \E b \in InputSpans : ComposeTraps(sp, b)
    \/ \E b \in InputSpans : ComposeTraps(b, sp)
    \/ ComposeTraps(sp, spanCopy(sp))

SpanSpec == SpanInit /\ [][SpanNext]_vars

----------------------------------------------------------------------------
(* Properties of element access (Spec)                                     *)

MultiOps == {"at_read", "at_write", "call_read", "call_write"}
LinearOps == {"linear_read", "linear_write"}
ReadOps == {"at_read", "call_read", "linear_read", "subscript_read"}
WriteOps == {"at_write", "call_write", "linear_write", "subscript_write"}

\* The call c checked a number of indices or tags against the order.
CountChecked(c) == (c.op \in MultiOps /\ c.n >= 2) \/ c.op = "einstein"

\* The call c is a checked access by one storage offset.
IsLinear(c) == c.op \in LinearOps \/ (c.op \in MultiOps /\ c.n = 1)

InExtents(T, is) == \A d \in 1..Len(is) : is[d] < T.extents[d]

InStorage(T, h, off) == 0 <= off /\ off < size(T, h)

\* C1: a multi-index at or call with k >= 2 indices, or an Einstein call with
\* k >= 1 tags, throws invalid_argument exactly when k differs from the
\* order of the tensor, and then touches no element and leaves extents,
\* strides and storage as they were.
C1_IndexCount ==
    [][CountChecked(last') =>
        /\ (last'.status = "invalid_argument") <=> (last'.n # order(tensors[last'.t]))
        /\ last'.status = "invalid_argument" =>
              /\ last'.touched = {}
              /\ tensors' = tensors
              /\ heap' = heap]_vars

\* at(i, j, k) on a tensor of order 2 has failed.
C1_Witness ==
    /\ last.op = "at_read"
    /\ last.n = 3
    /\ last.status = "invalid_argument"
    /\ tensors[last.t].extents = <<2, 2>>

C6_WriteReadBack ==
    [][LET c == last'
           T == tensors[c.t]
           off == IF c.n >= 2 THEN to_index(T.strides, c.is) ELSE c.is[1]
       IN  (c.op \in WriteOps /\ c.status = "ok") =>
              /\ tensors' = tensors
              /\ InStorage(T, heap, off)
              /\ heap' = [heap EXCEPT ![T.container][off + 1] = c.v]
              /\ LET T2 == tensors'[c.t]
                 IN  /\ c.n >= 2 =>
                           LET r == at(T2, heap', c.n, c.is)
                           IN  r.status = "ok" /\ Fetched(T2, heap', r) = c.v
                     /\ c.n >= 2 =>
                           LET r == call(T2, heap', c.n, c.is)
                           IN  r.status = "ok" /\ Fetched(T2, heap', r) = c.v
                     /\ LET r == atLinear(T2, heap', off)
                        IN  r.status = "ok" /\ Fetched(T2, heap', r) = c.v
                     /\ subscript(T2, heap', off) = c.v]_vars

\* at(1, 1) = 1 has been executed on a tensor of shape (2, 2) whose other
\* elements are 0.
C6_Witness ==
    /\ last.op = "at_write"
    /\ last.is = <<1, 1>>
    /\ last.v = 1
    /\ last.status = "ok"
    /\ tensors[last.t].extents = <<2, 2>>
    /\ heap[tensors[last.t].container] = <<0, 0, 0, 1>>

----------------------------------------------------------------------------
(* Properties of whole-tensor operations (PairSpec)                        *)

Others(t) == DOMAIN tensors \ {t}

\* C5: every tensor, as constructed and after any element writes, scalar
\* broadcasts, copy-assignments and swaps, has size() = product(extents()),
\* rank() = order() = number of extents = number of strides, size(r) =
\* extents()[r] for every r < rank(), and is empty() exactly when size() = 0.
C5_ShapeInvariant ==
    \A t \in DOMAIN tensors :
        LET T == tensors[t]
        IN  /\ size(T, heap) = product(extents(T))
            /\ rank(T) = order(T)
            /\ rank(T) = Len(extents(T))
            /\ Len(strides(T)) = Len(extents(T))
            /\ \A r \in 0..(rank(T) - 1) : sizeAt(T, r) = extents(T)[r + 1]
            /\ empty(T, heap) <=> (size(T, heap) = 0)

\* Tensor 1, constructed with a shape of rank 0, has taken the shape (2, 1)
\* and the elements of tensor 2 by swap(1, 2) after writes to tensor 2.
C5_Witness ==
    /\ last.op = "swap"
    /\ last.t = 1 /\ last.u = 2
    /\ tensors[1].extents = <<2, 1>>
    /\ heap[tensors[1].container] = <<0, 1>>
    /\ tensors[2].extents = <<>>

\* C7: after a = b tensor a has the extents, the strides and the elements b
\* had, b and every other tensor are as before, and no two tensors share
\* storage; a write to one tensor changes no other tensor; when building the
\* copy of b fails a and b are unmodified.
C7_CopyAssign ==
    [][LET c == last'
       IN  /\ (c.op = "assign" /\ c.status = "ok") =>
                 /\ View(tensors'[c.t], heap') = View(tensors[c.u], heap)
                 /\ \A x \in Others(c.t) :
                       View(tensors'[x], heap') = View(tensors[x], heap)
                 /\ \A x \in DOMAIN tensors' : \A y \in DOMAIN tensors' \ {x} :
                       tensors'[x].container # tensors'[y].container
           /\ (c.op = "assign" /\ c.status # "ok") =>
                 /\ c.status = "bad_alloc"
                 /\ tensors' = tensors
                 /\ heap' = heap
           /\ (c.op \in WriteOps \cup {"fill"} /\ c.status = "ok") =>
                 \A x \in Others(c.t) :
                    View(tensors'[x], heap') = View(tensors[x], heap)]_vars

\* a = b has been executed for tensors 1 and 2 of different shapes, b
\* holding a written element.
C7_Witness ==
    /\ last.op = "assign"
    /\ last.status = "ok"
    /\ last.t = 1 /\ last.u = 2
    /\ tensors[1].extents = <<1, 2>>
    /\ tensors[2].extents = <<1, 2>>
    /\ heap[tensors[1].container] = <<1, 0>>
    /\ heap[tensors[2].container] = <<1, 0>>
    /\ tensors[1].container # tensors[2].container

\* C8: swap(a, b) never fails; afterwards a has the extents, strides and
\* elements b had and b those a had, and every other tensor is as before;
\* a second swap(a, b) restores both.
C8_Swap ==
    [][LET c == last'
       IN  c.op = "swap" =>
              /\ c.status = "ok"
              /\ View(tensors'[c.t], heap') = View(tensors[c.u], heap)
              /\ View(tensors'[c.u], heap') = View(tensors[c.t], heap)
              /\ \A x \in DOMAIN tensors \ {c.t, c.u} :
                    View(tensors'[x], heap') = View(tensors[x], heap)
              /\ LET again == swap(tensors', c.t, c.u)
                 IN  \A x \in DOMAIN tensors :
                        View(again[x], heap') = View(tensors[x], heap)]_vars

\* swap(1, 2) has exchanged a tensor of shape (2) holding <<1, 0>> and a
\* tensor of shape (1, 1).
C8_Witness ==
    /\ last.op = "swap"
    /\ last.t = 1 /\ last.u = 2
    /\ tensors[1].extents = <<1, 1>>
    /\ tensors[2].extents = <<2>>
    /\ heap[tensors[2].container] = <<1, 0>>
    /\ heap[tensors[1].container] = <<0>>

----------------------------------------------------------------------------
(* Properties of span (SpanSpec)                                           *)

Valid(s) == s.step # 0 \/ s.first = s.last

C4_Composition ==
    /\ index(sp, 0) = sp.first
    /\ (sout.op = "compose" /\ Valid(sout.lhs) /\ Valid(sout.rhs)) =>
          /\ sout.status = "ok"
          /\ sp = [first |-> sout.rhs.first * sout.lhs.step + sout.lhs.first,
                   step  |-> sout.lhs.step * sout.rhs.step,
                   last  |-> sout.rhs.last * sout.lhs.step + sout.lhs.first]
          /\ \A i \in SizeType :
                index(sp, i) = index(sout.lhs, ToUnsigned(index(sout.rhs, i)))

\* C9: the failure of span(f, s, l) with s = 0 and f # l is of the
\* invalid-argument kind, the kind a wrong index count raises in at, and the
\* constructor call itself raises it.
C9_ErrorKind ==
    (sout.op = "span3" /\ sout.args[2] = 0 /\ sout.args[1] # sout.args[3]) =>
        sout.status = at(tensors[1], heap, 2, <<0, 0>>).status

\* C10: every span value reached by constructions, copies, assignments and
\* compositions has step # 0 or first = last, and the composition of two
\* valid spans never fails the zero-step check.
C10_ValidityClosed ==
    /\ Valid(sp)
    /\ (sout.op = "compose" /\ Valid(sout.lhs) /\ Valid(sout.rhs)) =>
          sout.status = "ok"

====
